---- MODULE Spec2Model ----
(***************************************************************************)
(* Model of src/bounce-function.js: makeBounceFunction and the easing      *)
(* function it returns.  Numbers are exact rationals <<numerator,          *)
(* denominator>> in lowest terms with a positive denominator; the          *)
(* JavaScript special values that the code can produce or receive are      *)
(* tuples with a non-positive denominator.                                 *)
(***************************************************************************)
EXTENDS Integers, Sequences, FiniteSets, TLC

\* ------------------------------------------------------------------------
\* Bounds of the model
\* ------------------------------------------------------------------------

\* The evaluator is called at the grid points k / GridN, k = 0 .. GridN + 1.
GridN == 4

\* The loop counter i of the bounce-count loop saturates at MaxIter (the
\* double i of the source saturates at 2^53, where i += 1 leaves i unchanged).
MaxIter == 6

\* ------------------------------------------------------------------------
\* JavaScript values
\* ------------------------------------------------------------------------

Zero == <<0, 1>>
One == <<1, 1>>
Two == <<2, 1>>
Half == <<1, 2>>
Hundredth == <<1, 100>>

\* NaN, the result of 0 / 0.
NaN == <<0, 0>>
\* undefined: an omitted argument, an unassigned local, a function that
\* falls off its end.
Undefined == <<0, -1>>
\* A string that is not a numeral, such as "abc".
Str == <<0, -2>>

\* typeof v === "number" (NaN and the infinities are numbers).
TypeofNumber(v) == v[2] >= 0
\* v is a finite number.
IsNum(v) == v[2] > 0
\* !v
Falsy(v) == v = Undefined \/ v = NaN \/ (IsNum(v) /\ v[1] = 0)

Abs(n) == IF n < 0 THEN -n ELSE n

\* The arithmetic below is defined on values (functions of their operands),
\* so that an operand is evaluated once however often the body reads it.
Values == Int \X Int

GCD[a \in Nat, b \in Nat] == IF b = 0 THEN a ELSE GCD[b, a % b]

Norm(n, d) == LET g == GCD[Abs(n), d] IN <<n \div g, d \div g>>

NegV[a \in Values] == IF IsNum(a) THEN <<-a[1], a[2]>> ELSE NaN

AddV[a \in Values, b \in Values] ==
    IF ~IsNum(a) \/ ~IsNum(b) THEN NaN
    ELSE LET g == GCD[a[2], b[2]]
         IN Norm(a[1] * (b[2] \div g) + b[1] * (a[2] \div g), (a[2] \div g) * b[2])

MulV[a \in Values, b \in Values] ==
    IF ~IsNum(a) \/ ~IsNum(b) THEN NaN
    ELSE LET g1 == GCD[Abs(a[1]), b[2]]
             g2 == GCD[Abs(b[1]), a[2]]
         IN <<(a[1] \div g1) * (b[1] \div g2), (a[2] \div g2) * (b[2] \div g1)>>

\* a / b: 0 / 0 is NaN, a nonzero number over 0 is an infinity <<+-1, 0>>.
DivV[a \in Values, b \in Values] ==
    IF ~IsNum(a) \/ ~IsNum(b) THEN NaN
    ELSE IF b[1] = 0 THEN (IF a[1] = 0 THEN NaN ELSE <<(IF a[1] > 0 THEN 1 ELSE -1), 0>>)
    ELSE IF b[1] > 0 THEN MulV[a, <<b[2], b[1]>>]
    ELSE MulV[a, <<-b[2], -b[1]>>]

\* a < b and a <= b; every comparison with a value that is not a number is
\* false.
LtV[a \in Values, b \in Values] ==
    IsNum(a) /\ IsNum(b) /\ a[1] * b[2] < b[1] * a[2]
LeV[a \in Values, b \in Values] ==
    IsNum(a) /\ IsNum(b) /\ a[1] * b[2] <= b[1] * a[2]

Neg(a) == NegV[a]
Add(a, b) == AddV[a, b]
Sub(a, b) == AddV[a, NegV[b]]
Mul(a, b) == MulV[a, b]
Div(a, b) == DivV[a, b]
Lt(a, b) == LtV[a, b]
Gt(a, b) == LtV[b, a]
Le(a, b) == LeV[a, b]
Ge(a, b) == LeV[b, a]

\* Math.pow(a, k) for an integer k >= 0; Math.pow(0, 0) is 1.
PowV[a \in Values, k \in Nat] == IF k = 0 THEN One ELSE MulV[a, PowV[a, k - 1]]
Pow(a, k) == PowV[a, k]

\* ------------------------------------------------------------------------
\* Arguments the model calls makeBounceFunction and the evaluator with
\* ------------------------------------------------------------------------

DecayArgs ==
    {Undefined, Str, <<-1, 5>>, Zero, <<1, 4>>, <<1, 3>>, Half, One, <<3, 2>>}

ThresholdArgs ==
    {Undefined, Str, Zero, <<-1, 1>>, Hundredth, <<1, 10>>, Half, One, Two}

GridPoints == {Norm(k, GridN) : k \in 0 .. GridN + 1}

\* ------------------------------------------------------------------------
\* makeBounceFunction
\* ------------------------------------------------------------------------

NormaliseDecay(a) ==
    IF a = Undefined \/ ~TypeofNumber(a) \/ Ge(a, One) THEN Half
    ELSE IF Lt(a, Zero) THEN Zero
    ELSE a

NormaliseThreshold(b, tbb) ==
    IF Falsy(b) \/ ~TypeofNumber(tbb) THEN Hundredth ELSE b

\* The threshold test reads the raw first argument instead of the variable
\* that line 16 has already overwritten.
NormaliseArgs_RawType(a, b) == <<NormaliseDecay(a), NormaliseThreshold(b, a)>>

\* Lines 15-24: the pair <<timeBetweenBounces, bounceBackThreshold>>.
NormaliseArgs(a, b) ==
    LET tbb == NormaliseDecay(a) IN <<tbb, NormaliseThreshold(b, tbb)>>

\* Line 28: the loop condition.
LoopCond(h, threshold) == Gt(h, threshold)

\* The exponent is taken one bounce ahead.
BounceHeight_Ahead(tbb, k) == Pow(tbb, 2 * (k + 1))

\* Line 29: the height of the bounce computed in iteration k.
BounceHeight(tbb, k) == Pow(tbb, 2 * k)

RECURSIVE SumDurations(_, _)
SumDurations(tbb, n) ==
    IF n = 0 THEN One
    ELSE Add(SumDurations(tbb, n - 1), Mul(Pow(tbb, n), Two))

\* Lines 35-38.
TotalTime(tbb, n) == SumDurations(tbb, n)

\* The factor 2 (rise and fall) is dropped.
SegmentDuration_NoDouble(tbb, k, total) == Div(Pow(tbb, k), total)

\* Line 47: the normalised duration of bounce k.
SegmentDuration(tbb, k, total) == Mul(Div(Pow(tbb, k), total), Two)

\* lastBreakPoint is assigned instead of accumulated.
BreakPoint_NoAccumulate(tbb, k, total) ==
    IF k = 0 THEN Div(One, total)
    ELSE Add(Div(One, total), SegmentDuration(tbb, k, total))

\* Lines 41, 45-48: timeBreakPoints[k].
RECURSIVE BreakPoint(_, _, _)
BreakPoint(tbb, k, total) ==
    IF k = 0 THEN Div(One, total)
    ELSE Add(BreakPoint(tbb, k - 1, total), SegmentDuration(tbb, k, total))

\* Line 49: timeHalf of bounce k >= 1.
TimeHalf(tbb, k, total) ==
    Div(Sub(BreakPoint(tbb, k, total), BreakPoint(tbb, k - 1, total)), Two)

\* The half duration is added to the end of the segment, not to its start.
HalfwayPoint_FromEnd(tbb, k, total) ==
    IF k = 0 THEN Zero
    ELSE Add(TimeHalf(tbb, k, total), BreakPoint(tbb, k, total))

\* Lines 42, 50: timeHalfwayPoints[k].
HalfwayPoint(tbb, k, total) ==
    IF k = 0 THEN Zero
    ELSE Add(TimeHalf(tbb, k, total), BreakPoint(tbb, k - 1, total))

\* Lines 44, 51: normalisingConstants[k].
NormConstant(tbb, k) ==
    IF k = 0 THEN Zero ELSE Sub(One, Pow(tbb, 2 * k))

\* The half duration is not squared.
NormFactor_NoSquare(tbb, k, total) ==
    IF k = 0
    THEN Div(One, Mul(Div(One, total), Div(One, total)))
    ELSE Div(Sub(One, NormConstant(tbb, k)), TimeHalf(tbb, k, total))

\* Lines 43, 52: normalisingFactors[k].
NormFactor(tbb, k, total) ==
    IF k = 0
    THEN Div(One, Mul(Div(One, total), Div(One, total)))
    ELSE Div(Sub(One, NormConstant(tbb, k)),
             Mul(TimeHalf(tbb, k, total), TimeHalf(tbb, k, total)))

\* ------------------------------------------------------------------------
\* The returned easing function
\* ------------------------------------------------------------------------

\* Line 63: the parabola of segment k at time t.
Parabola(factors, halfways, constants, k, t) ==
    LET xm == Sub(t, halfways[k])
    IN Add(Mul(Mul(factors[k], xm), xm), constants[k])

\* Lines 61-62: the segments whose breakpoint exceeds t.
Active(breaks, n, t) == {k \in 0 .. n : Lt(t, breaks[k])}

Min(S) == CHOOSE m \in S : \A o \in S : m <= o

\* The x === 1 case is missing.
Easing_NoTerminal(t, n, breaks, factors, halfways, constants) ==
    IF Active(breaks, n, t) = {} THEN <<Undefined, n + 1>>
    ELSE LET k == Min(Active(breaks, n, t))
         IN <<Parabola(factors, halfways, constants, k, t), k + 1>>

\* Lines 56-66: <<returned value, number of segments inspected>>.
Easing(t, n, breaks, factors, halfways, constants) ==
    IF t = One THEN <<One, 0>>
    ELSE IF Active(breaks, n, t) = {} THEN <<Undefined, n + 1>>
    ELSE LET k == Min(Active(breaks, n, t))
         IN <<Parabola(factors, halfways, constants, k, t), k + 1>>

\* ------------------------------------------------------------------------
\* State
\* ------------------------------------------------------------------------

VARIABLES
    pc,                     \* "idle", "count" (in the loop of line 28), "built"
    args,                   \* the arguments of the current call
    timeBetweenBounces,
    bounceBackThreshold,
    howFarUpItWillBounce,
    i,
    numberOfBounces,
    totalTime,
    timeBreakPoints,
    timeHalfwayPoints,
    normalisingFactors,
    normalisingConstants,
    x,                      \* the argument of the last evaluator call
    ret,                    \* its return value
    scanned                 \* the number of segments it inspected

vars == <<pc, args, timeBetweenBounces, bounceBackThreshold, howFarUpItWillBounce,
          i, numberOfBounces, totalTime, timeBreakPoints, timeHalfwayPoints,
          normalisingFactors, normalisingConstants, x, ret, scanned>>

table == <<numberOfBounces, totalTime, timeBreakPoints, timeHalfwayPoints,
           normalisingFactors, normalisingConstants>>

Init ==
    /\ pc = "idle"
    /\ args = <<Undefined, Undefined>>
    /\ timeBetweenBounces = Undefined
    /\ bounceBackThreshold = Undefined
    /\ howFarUpItWillBounce = Undefined
    /\ i = Undefined
    /\ numberOfBounces = Undefined
    /\ totalTime = Undefined
    /\ timeBreakPoints = <<>>
    /\ timeHalfwayPoints = <<>>
    /\ normalisingFactors = <<>>
    /\ normalisingConstants = <<>>
    /\ x = Undefined
    /\ ret = Undefined
    /\ scanned = 0

\* makeBounceFunction(a, b) up to the loop of line 28.
Call(a, b) ==
    /\ pc \in {"idle", "built"}
    /\ pc' = "count"
    /\ args' = <<a, b>>
    /\ timeBetweenBounces' = NormaliseArgs(a, b)[1]
    /\ bounceBackThreshold' = NormaliseArgs(a, b)[2]
    /\ howFarUpItWillBounce' = One
    /\ i' = 0
    /\ numberOfBounces' = Undefined
    /\ totalTime' = Undefined
    /\ timeBreakPoints' = <<>>
    /\ timeHalfwayPoints' = <<>>
    /\ normalisingFactors' = <<>>
    /\ normalisingConstants' = <<>>
    /\ x' = Undefined
    /\ ret' = Undefined
    /\ scanned' = 0

\* One iteration of the loop of lines 28-31.
CountStep ==
    /\ pc = "count"
    /\ LoopCond(howFarUpItWillBounce, bounceBackThreshold)
    /\ howFarUpItWillBounce' = BounceHeight(timeBetweenBounces, i)
    /\ i' = IF i < MaxIter THEN i + 1 ELSE i
    /\ UNCHANGED <<pc, args, timeBetweenBounces, bounceBackThreshold, table,
                   x, ret, scanned>>

\* The loop exits; lines 32-53 build the table and line 56 returns the
\* evaluator.
Finish ==
    /\ pc = "count"
    /\ ~LoopCond(howFarUpItWillBounce, bounceBackThreshold)
    /\ pc' = "built"
    /\ numberOfBounces' = i
    /\ totalTime' = TotalTime(timeBetweenBounces, i)
    /\ LET total == TotalTime(timeBetweenBounces, i)
       IN /\ timeBreakPoints' =
                [k \in 0 .. i |-> BreakPoint(timeBetweenBounces, k, total)]
          /\ timeHalfwayPoints' =
                [k \in 0 .. i |-> HalfwayPoint(timeBetweenBounces, k, total)]
          /\ normalisingFactors' =
                [k \in 0 .. i |-> NormFactor(timeBetweenBounces, k, total)]
          /\ normalisingConstants' =
                [k \in 0 .. i |-> NormConstant(timeBetweenBounces, k)]
    /\ UNCHANGED <<args, timeBetweenBounces, bounceBackThreshold,
                   howFarUpItWillBounce, i, x, ret, scanned>>

\* The times the evaluator is called at: the grid, the breakpoints and the
\* halfway points of the segments.
EvalInputs ==
    GridPoints \cup {timeBreakPoints[k] : k \in DOMAIN timeBreakPoints}
               \cup {timeHalfwayPoints[k] : k \in DOMAIN timeHalfwayPoints}

\* One call of the returned evaluator.
Evaluate(t) ==
    /\ pc = "built"
    /\ x' = t
    /\ LET r == Easing(t, numberOfBounces, timeBreakPoints, normalisingFactors,
                       timeHalfwayPoints, normalisingConstants)
       IN ret' = r[1] /\ scanned' = r[2]
    /\ UNCHANGED <<pc, args, timeBetweenBounces, bounceBackThreshold,
                   howFarUpItWillBounce, i, table>>

Next ==
    \/ \E a \in DecayArgs, b \in ThresholdArgs : Call(a, b)
    \/ CountStep
    \/ Finish
    \/ \E t \in EvalInputs : Evaluate(t)

Spec == Init /\ [][Next]_vars

\* The code runs to completion: an enabled loop iteration or loop exit is
\* eventually taken.
FairSpec == Spec /\ WF_vars(CountStep) /\ WF_vars(Finish)

\* ------------------------------------------------------------------------
\* Properties
\* ------------------------------------------------------------------------

\* The working parameters are a valid pair: decay ratio in [0,1), rest
\* threshold in (0,1).
ValidPair ==
    /\ Le(Zero, timeBetweenBounces) /\ Lt(timeBetweenBounces, One)
    /\ Lt(Zero, bounceBackThreshold) /\ Lt(bounceBackThreshold, One)

Built == pc = "built"
Evaluated == pc = "built" /\ x # Undefined

\* The parabola of segment k of the built table at time t.
SegmentValue(k, t) ==
    Parabola(normalisingFactors, timeHalfwayPoints, normalisingConstants, k, t)

\* C1: for a valid pair and 0 <= t <= 1 the evaluator finds an active segment
\* (or takes the t = 1 case) and returns a number in [0,1]; the last
\* breakpoint is exactly 1.
C1_ReturnsWithinUnitInterval ==
    (Evaluated /\ ValidPair /\ Le(Zero, x) /\ Le(x, One)) =>
        /\ timeBreakPoints[numberOfBounces] = One
        /\ (x = One \/ Active(timeBreakPoints, numberOfBounces, x) # {})
        /\ IsNum(ret) /\ Le(Zero, ret) /\ Le(ret, One)

\* A time inside the last bounce segment was evaluated to a dip below 1.
C1_Witness ==
    /\ Evaluated /\ ValidPair /\ Lt(Zero, x) /\ Lt(x, One)
    /\ numberOfBounces >= 2 /\ scanned = numberOfBounces + 1
    /\ Lt(Zero, ret) /\ Lt(ret, One)

\* C2: for a valid pair, evaluate(0) = 0 and evaluate(1) = 1.
C2_Endpoints ==
    (Evaluated /\ ValidPair) =>
        /\ (x = Zero => ret = Zero)
        /\ (x = One => ret = One)

C2_Witness ==
    Evaluated /\ ValidPair /\ x = One /\ ret = One /\ numberOfBounces >= 2
    /\ Lt(Zero, timeBetweenBounces)

\* C3: for a valid pair the evaluator returns 1 at every breakpoint of the
\* table.
C3_OneAtBreakpoints ==
    (Evaluated /\ ValidPair) =>
        \A k \in 0 .. numberOfBounces : x = timeBreakPoints[k] => ret = One

\* The call at an inner breakpoint was served by the next segment's parabola.
C3_Witness ==
    /\ Evaluated /\ ValidPair /\ numberOfBounces >= 2
    /\ x = timeBreakPoints[1] /\ scanned = 3 /\ ret = One

\* C4 as claimed: for a valid pair every segment's own parabola is defined and
\* equals 1 at its upper breakpoint, and agrees there with the next segment's.
C4_ImpactContinuityAll ==
    (Built /\ ValidPair) =>
        \A k \in 0 .. numberOfBounces :
            /\ SegmentValue(k, timeBreakPoints[k]) = One
            /\ (k < numberOfBounces =>
                    SegmentValue(k + 1, timeBreakPoints[k])
                        = SegmentValue(k, timeBreakPoints[k]))

\* C4 amended: the same for every segment when the decay ratio is positive,
\* and for segment 0 when it is 0; with decay ratio 0 the bounce segments are
\* empty and their scale is 0 / 0.
C4_ImpactContinuity ==
    (Built /\ ValidPair) =>
        /\ SegmentValue(0, timeBreakPoints[0]) = One
        /\ (Lt(Zero, timeBetweenBounces) =>
                \A k \in 0 .. numberOfBounces :
                    /\ SegmentValue(k, timeBreakPoints[k]) = One
                    /\ (k < numberOfBounces =>
                            SegmentValue(k + 1, timeBreakPoints[k])
                                = SegmentValue(k, timeBreakPoints[k])))
        /\ (timeBetweenBounces = Zero =>
                \A k \in 1 .. numberOfBounces : normalisingFactors[k] = NaN)

C4_Witness ==
    /\ Built /\ ValidPair /\ Lt(Zero, timeBetweenBounces) /\ numberOfBounces >= 3
    /\ SegmentValue(3, timeBreakPoints[3]) = One
    /\ SegmentValue(3, timeBreakPoints[2]) = One

\* C5 as claimed: for a valid pair (decay ratio 0 included) breakpoints[0] is
\* 1 / totalTime and the breakpoints strictly increase.
C5_BreakpointsStrictlyIncrease ==
    (Built /\ ValidPair) =>
        /\ timeBreakPoints[0] = Div(One, totalTime)
        /\ \A k \in 0 .. numberOfBounces - 1 :
                Lt(timeBreakPoints[k], timeBreakPoints[k + 1])

\* C5 amended: breakpoints[0] is 1 / totalTime; the breakpoints strictly
\* increase when the decay ratio is positive and are all equal to 1 when it
\* is 0.
C5_BreakpointsIncrease ==
    (Built /\ ValidPair) =>
        /\ timeBreakPoints[0] = Div(One, totalTime)
        /\ (Lt(Zero, timeBetweenBounces) =>
                \A k \in 0 .. numberOfBounces - 1 :
                    Lt(timeBreakPoints[k], timeBreakPoints[k + 1]))
        /\ (timeBetweenBounces = Zero =>
                \A k \in 0 .. numberOfBounces : timeBreakPoints[k] = One)

C5_Witness ==
    /\ Built /\ ValidPair /\ Lt(Zero, timeBetweenBounces) /\ numberOfBounces >= 3
    /\ Lt(timeBreakPoints[2], timeBreakPoints[3])

\* The normalisation the claim C6 describes.
ClaimedDecay(a) ==
    IF a = Undefined \/ ~TypeofNumber(a) \/ Ge(a, One) THEN Half
    ELSE IF Lt(a, Zero) THEN Zero ELSE a

ClaimedThreshold(b) == IF Falsy(b) THEN Hundredth ELSE b

\* C6: a call with (d, T) works on exactly the parameters (nd, nT) of the
\* claim, and a call with (nd, nT) is normalised to the same pair, so that
\* both calls run the table construction from the same values; whether the
\* threshold is defaulted depends on the threshold alone.
C6_SilentNormalisation ==
    pc # "idle" =>
        LET nd == ClaimedDecay(args[1])
            nT == ClaimedThreshold(args[2])
        IN /\ <<timeBetweenBounces, bounceBackThreshold>> = <<nd, nT>>
           /\ NormaliseArgs(nd, nT) = <<nd, nT>>

\* A truthy numeric threshold was honoured although the decay ratio argument
\* was not a number.
C6_Witness ==
    /\ Built /\ ~TypeofNumber(args[1]) /\ args[2] = Half
    /\ timeBetweenBounces = Half /\ bounceBackThreshold = Half

C8_NegativeDecayOneBounce ==
    (Built /\ IsNum(args[1]) /\ Lt(args[1], Zero)
           /\ Lt(Zero, bounceBackThreshold) /\ Lt(bounceBackThreshold, One)) =>
        /\ timeBetweenBounces = Zero
        /\ numberOfBounces = 1

\* C9: every call completes: the bounce-count loop exits and the table is
\* built, and an evaluator call inspects at most numberOfBounces + 1 segments.
C9_EveryCallCompletes ==
    /\ (pc = "count") ~> (pc = "built")
    /\ [](Evaluated => scanned <= numberOfBounces + 1)

\* C10: for a valid pair with positive decay ratio, numberOfBounces is the
\* least n >= 1 with decayRatio^(2n) <= restThreshold.
C10_LeastBounceCount ==
    (Built /\ ValidPair /\ Lt(Zero, timeBetweenBounces)) =>
        /\ numberOfBounces >= 1
        /\ Le(Pow(timeBetweenBounces, 2 * numberOfBounces), bounceBackThreshold)
        /\ \A k \in 1 .. numberOfBounces - 1 :
                Gt(Pow(timeBetweenBounces, 2 * k), bounceBackThreshold)
====
